---- MODULE Spec2Model ----
(***************************************************************************)
(* Model of src/aes.py: ECBImageProcessor.  The pipeline of process_image  *)
(* is one action per stage:                                                *)
(*   read_image_bytes -> break_into_blocks -> count_block_frequencies ->   *)
(*   generate_color_palette -> assign_colors_to_blocks ->                  *)
(*   map_blocks_to_colors -> create_image                                  *)
(* A byte is an integer, a block a sequence of bytes, a colour a triple,   *)
(* the Counter a sequence of [block, count] records in insertion order,    *)
(* and a Python exception ends the run in pc = "error".                    *)
(***************************************************************************)
EXTENDS Integers, Sequences, FiniteSets

VARIABLES
    pc,                 \* stage of process_image about to run, "done" or "error"
    error,              \* name of the exception raised, or "none"
    block_size,         \* self.block_size
    max_colors,         \* self.max_colors
    flip,               \* self.flip
    pixels_per_block,   \* self.pixels_per_block
    file_data,          \* the bytes of the file at self.image_path
    opened,             \* the input file has been opened and read
    written,            \* the output image has been saved
    img_data,           \* result of read_image_bytes
    img_blocks,         \* result of break_into_blocks
    block_frequencies,  \* result of count_block_frequencies
    color_palette,      \* result of generate_color_palette
    block_color_map,    \* result of assign_colors_to_blocks
    pixel_colors,       \* result of map_blocks_to_colors
    img_width,          \* create_image: img_width
    img_height,         \* create_image: img_height
    placed,             \* create_image: per pixel index, the coordinate and whether it was drawn
    raster              \* create_image: the pixels of img_output

vars == <<pc, error, block_size, max_colors, flip, pixels_per_block, file_data,
          opened, written, img_data, img_blocks, block_frequencies, color_palette,
          block_color_map, pixel_colors, img_width, img_height, placed, raster>>

config == <<block_size, max_colors, flip, pixels_per_block, file_data>>

\* ------------------------------------------------------------------ bounds
MaxByte == 2
MaxLen == 4
MaxBlock == 2
MaxColors == 3
MaxPpb == 2
MaxDistinct == 54
MaxPalette == 54
MaxPixels == 26

\* ------------------------------------------------- defaults of __init__
DefaultBlockSize == 16
DefaultMaxColors == 254
DefaultPixelsPerBlock == 16

White == <<255, 255, 255>>
Black == <<0, 0, 0>>

\* ------------------------------------------------------ Python arithmetic
Min(a, b) == IF a < b THEN a ELSE b
Max(a, b) == IF a > b THEN a ELSE b

\* a // b for b # 0: the quotient rounded toward minus infinity
PyFloorDiv(a, b) ==
    IF b > 0
    THEN (IF a >= 0 THEN a \div b ELSE -(((-a) + b - 1) \div b))
    ELSE (IF a <= 0 THEN (-a) \div (-b) ELSE -((a + (-b) - 1) \div (-b)))

\* a % b for b # 0: the remainder has the sign of b
PyMod(a, b) == a - b * PyFloorDiv(a, b)

\* s[i:j] for a step of 1 (negative indices count from the end, both are clipped)
PySlice(s, i, j) ==
    LET n  == Len(s)
        lo == IF i < 0 THEN Max(n + i, 0) ELSE Min(i, n)
        hi == IF j < 0 THEN Max(n + j, 0) ELSE Min(j, n)
    IN  IF hi <= lo THEN <<>> ELSE SubSeq(s, lo + 1, hi)

\* list(range(start, stop, step)) for step # 0
PyRange(start, stop, step) ==
    LET cnt == IF step > 0
               THEN (IF stop > start THEN PyFloorDiv(stop - start + step - 1, step) ELSE 0)
               ELSE (IF stop < start THEN PyFloorDiv(start - stop + (-step) - 1, -step) ELSE 0)
    IN  [k \in 1..cnt |-> start + (k - 1) * step]

\* int(math.sqrt(n)) for n >= 0 (exact for every n a double represents exactly)
RECURSIVE IsqrtFrom(_, _)
IsqrtFrom(n, w) == IF (w + 1) * (w + 1) > n THEN w ELSE IsqrtFrom(n, w + 1)


\* ------------------------------------------------- read_image_bytes (14-17)
\* img_data[:len(img_data) - (len(img_data) % self.block_size)], block_size # 0
ReadImageBytesUntruncated(data, B) == data

ReadImageBytes(data, B) == PySlice(data, 0, Len(data) - PyMod(Len(data), B))

\* ------------------------------------------------ break_into_blocks (19-20)
\* [img_data[i:i + B] for i in range(0, len(img_data), B)], B # 0
BreakIntoBlocks(data, B) ==
    LET starts == PyRange(0, Len(data), B)
    IN  [k \in 1..Len(starts) |-> PySlice(data, starts[k], starts[k] + B)]

\* ------------------------------------------ count_block_frequencies (22-23)
\* Counter(img_blocks): one entry per distinct block, in the order the blocks are
\* first seen, with the number of times the block occurs
FirstSeen(blocks) ==
    SelectSeq([k \in 1..Len(blocks) |-> k],
              LAMBDA k : \A j \in 1..(k - 1) : blocks[j] # blocks[k])

CounterTable(blocks, firsts) ==
    [i \in 1..Len(firsts) |->
        [block |-> blocks[firsts[i]],
         count |-> Cardinality({j \in 1..Len(blocks) : blocks[j] = blocks[firsts[i]]})]]

CountBlockFrequencies(blocks) == CounterTable(blocks, FirstSeen(blocks))

\* ------------------------------------------- generate_color_palette (25-31)
FormulaColorShifted(i) ==
    <<((i - 1) * 50) % 255, ((i - 1) * 80) % 255, ((i - 1) * 110) % 255>>

\* (i * 50 % 255, i * 80 % 255, i * 110 % 255), i >= 1
FormulaColor(i) == <<(i * 50) % 255, (i * 80) % 255, (i * 110) % 255>>

GenerateColorPalette(mc) ==
    <<White>> \o [i \in 1..(mc - 2) |-> FormulaColor(i)] \o <<Black>>

\* ------------------------------------------ assign_colors_to_blocks (33-44)
\* sorted(items, key=lambda x: x[1], reverse=True) is a stable sort: the items
\* come out by count descending, and items of equal count keep the order they have
\* in items.  WithCount is the run of one count; CountsFromTo joins the runs of
\* the counts hi down to lo.
WithCount(items, c) == SelectSeq(items, LAMBDA e : e.count = c)

Reverse(s) == [i \in 1..Len(s) |-> s[Len(s) + 1 - i]]

RECURSIVE CountsFromTo(_, _, _)
CountsFromTo(items, hi, lo) ==
    IF hi < lo THEN <<>>
    ELSE IF hi = lo THEN WithCount(items, hi)
    ELSE LET mid == (hi + lo) \div 2
         IN  CountsFromTo(items, hi, mid + 1) \o CountsFromTo(items, mid, lo)

MaxCount(items) ==
    IF items = <<>> THEN 0
    ELSE LET cs == {items[i].count : i \in 1..Len(items)}
         IN  CHOOSE c \in cs : \A d \in cs : d <= c

\* the plausible slip: sort ascending, then reverse the list (ties come out reversed)
SortedBlocksTiesReversed(items) == CountsFromTo(Reverse(items), MaxCount(items), 1)

SortedBlocks(items) == CountsFromTo(items, MaxCount(items), 1)

\* lines 36-42, over the ranking sorted_blocks
AssignRanked(sorted, palette, last) ==
    [b \in {sorted[k].block : k \in 1..Len(sorted)} |->
        LET i == (CHOOSE k \in 1..Len(sorted) : sorted[k].block = b) - 1
        IN  IF i < last THEN palette[i + 1] ELSE Black]

AssignColorsEarlyOverflow(freqs, palette) ==
    AssignRanked(SortedBlocks(freqs), palette, Len(palette) - 2)

AssignColorsToBlocks(freqs, palette) ==
    AssignRanked(SortedBlocks(freqs), palette, Len(palette) - 1)

\* --------------------------------------------- map_blocks_to_colors (46-53)
\* block_color_map.get(block, (0, 0, 0))
DictGet(map, b) == IF b \in DOMAIN map THEN map[b] ELSE Black

\* the pixels appended for blocks[lo..hi]: for each block in turn, one copy of
\* its colour per element of range(q)
RECURSIVE ExpandFromTo(_, _, _, _, _)
ExpandFromTo(blocks, map, q, lo, hi) ==
    IF hi < lo THEN <<>>
    ELSE IF hi = lo THEN [r \in 1..Len(PyRange(0, q, 1)) |-> DictGet(map, blocks[lo])]
    ELSE LET mid == (hi + lo) \div 2
         IN  ExpandFromTo(blocks, map, q, lo, mid) \o ExpandFromTo(blocks, map, q, mid + 1, hi)

\* the plausible slip: range(self.pixels_per_block)
MapBlocksPerBlockCopies(blocks, map, B, ppb) ==
    IF blocks = <<>> THEN <<>> ELSE ExpandFromTo(blocks, map, ppb, 1, Len(blocks))

\* pixels_per_block # 0 whenever blocks is not empty
MapBlocksToColors(blocks, map, B, ppb) ==
    IF blocks = <<>> THEN <<>>
    ELSE ExpandFromTo(blocks, map, PyFloorDiv(B, ppb), 1, Len(blocks))

\* ----------------------------------------------------- create_image (55-80)
ImgWidthCeil(n) ==
    LET w == IsqrtFrom(n, 0) IN IF w * w = n THEN w ELSE w + 1

ImgWidth(n) == IsqrtFrom(n, 0)

\* total_pixels // img_width, plus 1 when total_pixels % img_width != 0
ImgHeight(n, w) == PyFloorDiv(n, w) + (IF PyMod(n, w) # 0 THEN 1 ELSE 0)

PixelPlaceFlipOffByOne(idx, w, h, fl) ==
    LET y0 == PyFloorDiv(idx, w)
        y  == IF fl THEN h - y0 ELSE y0
    IN  [x |-> PyMod(idx, w), y |-> y, drawn |-> y < h]

\* lines 69-74: the coordinate of pixel idx and the outcome of the guard
PixelPlace(idx, w, h, fl) ==
    LET y0 == PyFloorDiv(idx, w)
        y  == IF fl THEN h - y0 - 1 ELSE y0
    IN  [x |-> PyMod(idx, w), y |-> y, drawn |-> y < h]

Placements(n, w, h, fl) == [k \in 1..n |-> PixelPlace(k - 1, w, h, fl)]

\* Image.new('RGB', (w, h)) is all black; each point drawn overwrites its cell
\* (ImageDraw ignores a point outside the image)
DrawRaster(colors, places, w, h) ==
    [c \in (0..(w - 1)) \X (0..(h - 1)) |->
        LET ws == {k \in DOMAIN places :
                     places[k].drawn /\ places[k].x = c[1] /\ places[k].y = c[2]}
        IN  IF ws = {} THEN Black
            ELSE colors[CHOOSE k \in ws : \A j \in ws : j <= k]]

\* ------------------------------------------------------------------ actions
Raise(name) ==
    /\ pc' = "error"
    /\ error' = name

read_image_bytes ==
    /\ pc = "read"
    /\ opened' = TRUE
    /\ IF block_size = 0
       THEN /\ Raise("ZeroDivisionError")
            /\ UNCHANGED img_data
       ELSE /\ img_data' = ReadImageBytes(file_data, block_size)
            /\ pc' = "chunk"
            /\ UNCHANGED error
    /\ UNCHANGED <<config, written, img_blocks, block_frequencies, color_palette,
                   block_color_map, pixel_colors, img_width, img_height, placed, raster>>

break_into_blocks ==
    /\ pc = "chunk"
    /\ img_blocks' = BreakIntoBlocks(img_data, block_size)
    /\ pc' = "count"
    /\ UNCHANGED <<config, error, opened, written, img_data, block_frequencies,
                   color_palette, block_color_map, pixel_colors, img_width, img_height,
                   placed, raster>>

count_block_frequencies ==
    /\ pc = "count"
    /\ block_frequencies' = CountBlockFrequencies(img_blocks)
    /\ pc' = "palette"
    /\ UNCHANGED <<config, error, opened, written, img_data, img_blocks,
                   color_palette, block_color_map, pixel_colors, img_width, img_height,
                   placed, raster>>

generate_color_palette ==
    /\ pc = "palette"
    /\ color_palette' = GenerateColorPalette(max_colors)
    /\ pc' = "assign"
    /\ UNCHANGED <<config, error, opened, written, img_data, img_blocks,
                   block_frequencies, block_color_map, pixel_colors, img_width,
                   img_height, placed, raster>>

assign_colors_to_blocks ==
    /\ pc = "assign"
    /\ block_color_map' = AssignColorsToBlocks(block_frequencies, color_palette)
    /\ pc' = "expand"
    /\ UNCHANGED <<config, error, opened, written, img_data, img_blocks,
                   block_frequencies, color_palette, pixel_colors, img_width,
                   img_height, placed, raster>>

map_blocks_to_colors ==
    /\ pc = "expand"
    /\ IF img_blocks # <<>> /\ pixels_per_block = 0
       THEN /\ Raise("ZeroDivisionError")
            /\ UNCHANGED pixel_colors
       ELSE /\ pixel_colors' = MapBlocksToColors(img_blocks, block_color_map,
                                                 block_size, pixels_per_block)
            /\ pc' = "render"
            /\ UNCHANGED error
    /\ UNCHANGED <<config, opened, written, img_data, img_blocks, block_frequencies,
                   color_palette, block_color_map, img_width, img_height, placed, raster>>

create_image ==
    /\ pc = "render"
    /\ LET n == Len(pixel_colors)
           w == ImgWidth(n)
       IN  /\ img_width' = w
           /\ IF w = 0
              THEN /\ Raise("ZeroDivisionError")
                   /\ UNCHANGED <<img_height, placed, raster, written>>
              ELSE LET h == ImgHeight(n, w)
                       places == Placements(n, w, h, flip)
                   IN  /\ img_height' = h
                       /\ placed' = places
                       /\ raster' = DrawRaster(pixel_colors, places, w, h)
                       /\ written' = TRUE
                       /\ pc' = "done"
                       /\ UNCHANGED error
    /\ UNCHANGED <<config, opened, img_data, img_blocks, block_frequencies,
                   color_palette, block_color_map, pixel_colors>>

Next ==
    \/ read_image_bytes
    \/ break_into_blocks
    \/ count_block_frequencies
    \/ generate_color_palette
    \/ assign_colors_to_blocks
    \/ map_blocks_to_colors
    \/ create_image

\* ------------------------------------------------------------------- inputs
Files == UNION {[1..n -> 0..MaxByte] : n \in 0..MaxLen}

\* the file <<0, 1, ..., n-1>>: n distinct one-byte blocks
Ramp(n) == [i \in 1..n |-> i - 1]

Repeat(b, n) == [i \in 1..n |-> b]

Run(f, b, mc, fl, p) ==
    [file |-> f, block_size |-> b, max_colors |-> mc, flip |-> fl, pixels_per_block |-> p]

\* every small file under every small valid configuration, flip at its default
SmallRuns ==
    {Run(f, b, mc, TRUE, p) : f \in Files, b \in 1..MaxBlock, mc \in 2..MaxColors,
                              p \in 1..MaxPpb}

\* runs at the default block size, and five distinct blocks on a palette of two
DefaultRuns ==
    {Run(f, DefaultBlockSize, DefaultMaxColors, TRUE, p) :
        f \in {Repeat(0, 2 * DefaultBlockSize),
               Repeat(0, DefaultBlockSize) \o Repeat(1, DefaultBlockSize),
               Ramp(DefaultBlockSize + 4)},
        p \in {1, DefaultPixelsPerBlock}}
    \cup {Run(Ramp(5), 1, 2, fl, 1) : fl \in BOOLEAN}

\* short files under every small configuration the constructor accepts
\* (argparse takes any int for block_size, max_colors and pixels_per_block)
AnyConfigRuns ==
    {Run(f, b, mc, fl, p) :
        f \in {Repeat(0, n) : n \in 0..MaxLen} \cup {Ramp(n) : n \in 0..MaxLen},
        b \in (-1)..MaxBlock, mc \in 0..MaxColors, fl \in BOOLEAN, p \in (-1)..MaxPpb}

\* n distinct one-byte blocks, the last one possibly seen twice
PaletteRuns ==
    {Run(Ramp(n) \o Repeat(n - 1, e), 1, mc, TRUE, 1) :
        n \in 1..MaxDistinct, e \in 0..1, mc \in 2..MaxPalette}

\* n one-byte blocks of up to three values, one pixel per block
RasterRuns ==
    {Run([i \in 1..n |-> (i - 1) % m], 1, 3, fl, 1) :
        n \in 0..MaxPixels, m \in 1..3, fl \in BOOLEAN}

InitWith(runs) ==
    /\ \E r \in runs :
        /\ file_data = r.file
        /\ block_size = r.block_size
        /\ max_colors = r.max_colors
        /\ flip = r.flip
        /\ pixels_per_block = r.pixels_per_block
    /\ pc = "read"
    /\ error = "none"
    /\ opened = FALSE
    /\ written = FALSE
    /\ img_data = <<>>
    /\ img_blocks = <<>>
    /\ block_frequencies = <<>>
    /\ color_palette = <<>>
    /\ block_color_map = <<>>
    /\ pixel_colors = <<>>
    /\ img_width = 0
    /\ img_height = 0
    /\ placed = <<>>
    /\ raster = <<>>

Init == InitWith(SmallRuns \cup DefaultRuns)
InitConfig == InitWith(AnyConfigRuns)
InitPalette == InitWith(PaletteRuns)
InitRaster == InitWith(RasterRuns)

Spec == Init /\ [][Next]_vars
SpecConfig == InitConfig /\ [][Next]_vars
SpecPalette == InitPalette /\ [][Next]_vars
SpecRaster == InitRaster /\ [][Next]_vars

\* ------------------------------------------------------------- properties
AfterChunk == {"count", "palette", "assign", "expand", "render", "done"}
AfterPalette == {"assign", "expand", "render", "done"}
AfterAssign == {"expand", "render", "done"}
AfterExpand == {"render", "done"}

DistinctBlocks == {img_blocks[j] : j \in 1..Len(img_blocks)}
Occurrences(b) == Cardinality({j \in 1..Len(img_blocks) : img_blocks[j] = b})
FirstIndex(b) == CHOOSE j \in 1..Len(img_blocks) :
                    /\ img_blocks[j] = b
                    /\ \A i \in 1..(j - 1) : img_blocks[i] # b

\* the number of distinct blocks ranked before b: those that occur more often,
\* and those that occur as often and are seen first
RankOf(b) ==
    Cardinality({c \in DistinctBlocks :
                    \/ Occurrences(c) > Occurrences(b)
                    \/ Occurrences(c) = Occurrences(b) /\ FirstIndex(c) < FirstIndex(b)})

\* C1: truncation law.  For input length L and block size B >= 1 the chunker
\* yields exactly floor(L/B) blocks, each of length B, block j being the input
\* bytes [j*B, (j+1)*B); the last L mod B bytes are in no block.
TruncationLaw ==
    (pc \in AfterChunk /\ block_size >= 1) =>
        LET L == Len(file_data)
            B == block_size
        IN  /\ Len(img_data) = L - (L % B)
            /\ Len(img_blocks) = L \div B
            /\ \A j \in 1..Len(img_blocks) :
                /\ Len(img_blocks[j]) = B
                /\ \A r \in 1..B : img_blocks[j][r] = file_data[(j - 1) * B + r]

\* C1 witness: a file of 20 bytes at block size 16 has been chunked into 1 block
TruncationWitness ==
    /\ pc = "count"
    /\ block_size = 16
    /\ Len(file_data) = 20
    /\ Len(img_blocks) = 1

RankColors(sorted) == [i \in 1..Len(sorted) |-> block_color_map[sorted[i].block]]

InjectiveUpToOverflowOf(colors) ==
    \A i \in 1..Len(colors) :
        IF i - 1 <= max_colors - 3
        THEN /\ colors[i] \notin {White, Black}
             /\ \A j \in 1..Len(colors) :
                    (j - 1 <= max_colors - 3 /\ j # i) => colors[j] # colors[i]
        ELSE colors[i] = Black

\* C2 as stated: the ranks 0 .. max_colors-3 get colours that are pairwise
\* distinct and neither white nor black, every later rank gets black.
InjectiveUpToOverflow ==
    (pc \in AfterAssign /\ max_colors >= 2) =>
        InjectiveUpToOverflowOf(RankColors(SortedBlocks(block_frequencies)))

InjectiveFormulaRanksOf(colors) ==
    \A i \in 1..Len(colors) :
        /\ i = 1 => colors[i] = White
        /\ (2 <= i /\ i - 1 <= max_colors - 2 /\ i - 1 <= 50) =>
              /\ colors[i] \notin {White, Black}
              /\ \A j \in 2..Len(colors) :
                    (j - 1 <= max_colors - 2 /\ j - 1 <= 50 /\ j # i)
                        => colors[j] # colors[i]
        /\ i - 1 >= max_colors - 1 => colors[i] = Black

\* C2 amended: rank 0 gets white; the ranks 1 .. min(max_colors-2, 50) get
\* colours that are pairwise distinct and neither white nor black; every rank
\* from max_colors-1 on gets black.
InjectiveFormulaRanks ==
    (pc \in AfterAssign /\ max_colors >= 2) =>
        InjectiveFormulaRanksOf(RankColors(SortedBlocks(block_frequencies)))

\* C2 witness: more than 50 formula ranks are in use and one block overflows
InjectiveWitness ==
    /\ pc = "expand"
    /\ max_colors >= 53
    /\ Cardinality(DOMAIN block_color_map) >= max_colors

\* C3 as stated: the palette has max_colors entries, white first, black last,
\* and entry i in between is ((i*50) mod 256, (i*80) mod 256, (i*110) mod 256).
PaletteMod256 ==
    (pc \in AfterPalette /\ max_colors >= 2) =>
        /\ Len(color_palette) = max_colors
        /\ color_palette[1] = White
        /\ color_palette[max_colors] = Black
        /\ \A i \in 1..(max_colors - 2) :
              color_palette[i + 1] = <<(i * 50) % 256, (i * 80) % 256, (i * 110) % 256>>

RankToPaletteOf(sorted) ==
    /\ DOMAIN block_color_map = DistinctBlocks
    /\ Len(sorted) = Cardinality(DistinctBlocks)
    /\ \A i \in 1..Len(sorted) :
          block_color_map[sorted[i].block] =
              IF i - 1 < max_colors - 1 THEN color_palette[i] ELSE Black
    /\ (max_colors = 2 /\ Len(sorted) = 5) =>
          /\ block_color_map[sorted[1].block] = White
          /\ \A i \in 2..5 : block_color_map[sorted[i].block] = Black

\* C4: the i-th ranked distinct block (i from 0) gets palette entry i when
\* i < max_colors - 1 and black otherwise, the map has exactly one entry per
\* distinct block, and with max_colors = 2 and 5 distinct blocks rank 0 is white
\* and ranks 1 to 4 are black.
RankToPalette ==
    (pc \in AfterAssign /\ Len(color_palette) = max_colors) =>
        RankToPaletteOf(SortedBlocks(block_frequencies))

\* C4 witness: five distinct blocks have been assigned from a palette of two
RankToPaletteWitness ==
    /\ pc = "expand"
    /\ max_colors = 2
    /\ Len(color_palette) = 2
    /\ Cardinality(DOMAIN block_color_map) = 5

RankingOf(sorted) ==
    /\ \A b \in DistinctBlocks :
          /\ sorted[RankOf(b) + 1].block = b
          /\ sorted[RankOf(b) + 1].count = Occurrences(b)
          /\ block_color_map[b] =
                IF RankOf(b) < Len(color_palette) - 1
                THEN color_palette[RankOf(b) + 1] ELSE Black
    /\ (block_size = 16 /\ file_data = [i \in 1..32 |-> IF i <= 16 THEN 0 ELSE 1]) =>
          /\ block_color_map[img_blocks[1]] = White
          /\ block_color_map[img_blocks[2]] = color_palette[2]
          /\ color_palette[2] = <<50, 80, 110>>

\* C5: the ranking lists the distinct blocks by count descending, blocks of
\* equal count in the order of their first occurrence, and the colours follow
\* it; 16 bytes 0x00 then 16 bytes 0x01 at block size 16 give the first block
\* white and the second palette entry 1.
RankingStable ==
    pc \in AfterAssign => RankingOf(SortedBlocks(block_frequencies))

\* C5 witness: the two-block file of the scenario has been assigned
RankingScenarioWitness ==
    /\ pc = "expand"
    /\ block_size = 16
    /\ Len(img_blocks) = 2
    /\ img_blocks[1] # img_blocks[2]

\* C6: with q = block_size // pixels_per_block the pixel sequence has exactly
\* (number of blocks) * q entries and the pixel at j*q + r is the colour the map
\* gives block j: chunk order, whatever the block's rank.
OrderAndCount ==
    (pc \in AfterExpand /\ pixels_per_block >= 1 /\ block_size >= 1) =>
        LET q == block_size \div pixels_per_block
        IN  /\ Len(pixel_colors) = Len(img_blocks) * q
            /\ \A j \in 1..Len(img_blocks) : \A r \in 1..q :
                  pixel_colors[(j - 1) * q + r] = block_color_map[img_blocks[j]]

\* C6 witness: pixels have been expanded for a first block that is not the
\* top-ranked one
OrderWitness ==
    /\ pc = "render"
    /\ Len(img_blocks) >= 3
    /\ RankOf(img_blocks[1]) > 0
    /\ Len(pixel_colors) = Len(img_blocks) * (block_size \div pixels_per_block)

\* C7: width = floor(sqrt(n)), height = ceil(n / width), and pixel k is placed
\* at (k mod width, k div width), or at (k mod width, height - (k div width) - 1)
\* under flip.
RasterLayout ==
    pc = "done" =>
        LET n == Len(pixel_colors)
            w == img_width
            h == img_height
        IN  /\ n >= 1
            /\ w * w <= n /\ n < (w + 1) * (w + 1)
            /\ (h - 1) * w < n /\ n <= h * w
            /\ Len(placed) = n
            /\ \A k \in 0..(n - 1) :
                  /\ placed[k + 1].x = k % w
                  /\ placed[k + 1].y = IF flip THEN h - (k \div w) - 1 ELSE k \div w
                  /\ raster[<<placed[k + 1].x, placed[k + 1].y>>] = pixel_colors[k + 1]

\* C7 witness: a flipped image whose last row is not full
RasterLayoutWitness ==
    /\ pc = "done"
    /\ flip
    /\ Len(pixel_colors) >= 7
    /\ Len(pixel_colors) % img_width # 0

Unfilled ==
    {c \in DOMAIN raster :
        \A k \in 1..Len(placed) : <<placed[k].x, placed[k].y>> # c}

\* C10: every pixel index is drawn inside the image, no two at one coordinate,
\* the guard never skips one, and width*height - n < width cells stay unfilled.
NoPixelSkipped ==
    pc = "done" =>
        LET n == Len(pixel_colors)
            w == img_width
            h == img_height
        IN  /\ \A k \in 1..n :
                  /\ 0 <= placed[k].x /\ placed[k].x < w
                  /\ 0 <= placed[k].y /\ placed[k].y < h
                  /\ placed[k].drawn
            /\ \A k \in 1..n : \A j \in 1..n :
                  (placed[k].x = placed[j].x /\ placed[k].y = placed[j].y) => k = j
            /\ DOMAIN raster = (0..(w - 1)) \X (0..(h - 1))
            /\ Cardinality(Unfilled) = w * h - n
            /\ w * h - n < w

\* C10 witness: a flipped image with unfilled cells
NoPixelSkippedWitness ==
    /\ pc = "done"
    /\ flip
    /\ img_width * img_height > Len(pixel_colors)
    /\ img_height >= 3

InvalidConfig ==
    \/ block_size <= 0
    \/ max_colors < 2
    \/ pixels_per_block <= 0
    \/ (pixels_per_block > 0 /\ block_size > 0 /\ block_size % pixels_per_block # 0)

\* C8 as stated: an invalid configuration is rejected before the input file is
\* opened, and never reaches a later stage or writes output.
ConfigFailsFast ==
    InvalidConfig => (~opened /\ ~written /\ pc \in {"read", "error"})

\* C9 as stated: a file shorter than the block size (block_size >= 1) is not an
\* error: the run raises nothing.
EmptyInputNoError ==
    (block_size >= 1 /\ Len(file_data) < block_size) => error = "none"

====
